---- MODULE Spec2Model ----
(***************************************************************************)
(* The two LangExtract bridge scripts as state machines.                   *)
(*   Runner A: scripts/enhanced_langextract_runner.py  (stdin -> stdout)   *)
(*   Runner B: scripts/langextract_runner.py           (--config file)     *)
(* A text is a sequence of pieces: characters, and indivisible runs of     *)
(* characters such as the tag "<p>" or the scheme "http://".  An optional  *)
(* value (Python None) is the empty sequence, a present value x is <<x>>.  *)
(* Confidences are counted in hundredths and a mean is kept as a quotient. *)
(***************************************************************************)
EXTENDS Integers, Sequences, FiniteSets, TLC

(* ------------------------------ bounds --------------------------------- *)
\* longest list of extractions a library result carries
MaxExtractions == 3
\* number of invocations of a runner on the same configuration and world
MaxRuns == 2

(* ------------------------------ text ----------------------------------- *)
None == <<>>
Some(x) == <<x>>

Whitespace == {" ", "\n", "\t"}
Tags == {"<p>", "</p>"}

RECURSIVE LStrip(_)
LStrip(s) == IF s # <<>> /\ Head(s) \in Whitespace THEN LStrip(Tail(s)) ELSE s

RECURSIVE RStrip(_)
RStrip(s) ==
    IF s # <<>> /\ s[Len(s)] \in Whitespace THEN RStrip(SubSeq(s, 1, Len(s) - 1)) ELSE s

\* str.strip()
Strip(s) == RStrip(LStrip(s))

\* len(text): the number of characters of a text
RECURSIVE Chars(_)
Chars(s) == IF s = <<>> THEN 0 ELSE Len(Head(s)) + Chars(Tail(s))

\* sep.join(parts)
RECURSIVE Join(_, _)
Join(sep, parts) ==
    IF parts = <<>> THEN <<>>
    ELSE IF Len(parts) = 1 THEN parts[1]
    ELSE parts[1] \o sep \o Join(sep, Tail(parts))

\* `sub in s` for strings: sub occurs as a contiguous run of s
Contains(s, sub) ==
    \E i \in 1..(Len(s) - Len(sub) + 1) : SubSeq(s, i, i + Len(sub) - 1) = sub

\* s.startswith(prefix)
StartsWith(s, prefix) ==
    Len(s) >= Len(prefix) /\ SubSeq(s, 1, Len(prefix)) = prefix

\* str.lower(), on the characters the model uses
LowerChar(c) ==
    CASE c = "Text" -> "text"
      [] c = "HTML" -> "html"
      [] c = ".HTM" -> ".htm"
      [] OTHER -> c

Lower(s) == [i \in 1..Len(s) |-> LowerChar(s[i])]

\* the text nodes of a parsed HTML document: the runs of characters between tags
RECURSIVE TextNodes(_, _)
TextNodes(s, cur) ==
    IF s = <<>> THEN <<cur>>
    ELSE IF Head(s) \in Tags THEN <<cur>> \o TextNodes(Tail(s), <<>>)
    ELSE TextNodes(Tail(s), Append(cur, Head(s)))

RECURSIVE NonEmptyStripped(_)
NonEmptyStripped(nodes) ==
    IF nodes = <<>> THEN <<>>
    ELSE IF Strip(Head(nodes)) = <<>> THEN NonEmptyStripped(Tail(nodes))
    ELSE <<Strip(Head(nodes))>> \o NonEmptyStripped(Tail(nodes))

\* BeautifulSoup(html, 'html.parser').get_text(separator='\n', strip=True)
GetText(html) == Join(<<"\n">>, NonEmptyStripped(TextNodes(html, <<>>)))

(* ------------------------- results of a call --------------------------- *)
\* a call either returns a value or raises an exception of a type with a message
Ok(v) == [ok |-> TRUE, val |-> v]
Raise(type, msg) == [ok |-> FALSE, type |-> type, msg |-> msg]

(* --------------------------- the file system --------------------------- *)
\* A path is <<stem, suffix>> (<<stem>> when the name has no suffix, <<>> for "").
Path(stem, suffix) == <<stem, suffix>>

\* Path(file_path).suffix
Suffix(path) == IF Len(path) = 2 THEN path[2] ELSE ""

\* what a file holds: its decoded bytes (raw) and, for the document formats, what
\* the document library reads out of it (corrupt: the library raises on it)
File(kind, raw, parts, corrupt) ==
    [kind |-> kind, raw |-> raw, parts |-> parts, corrupt |-> corrupt]

TextFile(raw) == File("file", raw, <<>>, FALSE)

PathTxt == Path("/in/a", ".txt")
PathBlankTxt == Path("/in/blank", ".txt")
PathHtml == Path("/in/page", ".html")
PathHtm == Path("/in/PAGE", ".HTM")
PathEmptyHtml == Path("/in/empty", ".html")
PathPdf == Path("/in/doc", ".pdf")
PathBadPdf == Path("/in/bad", ".pdf")
PathDocx == Path("/in/d", ".docx")
PathXlsx == Path("/in/s", ".xlsx")
PathPptx == Path("/in/t", ".pptx")
PathJson == Path("/in/j", ".json")
PathBadJson == Path("/in/bad", ".json")
PathLog == Path("/in/x", ".log")
PathDir == <<"/in/dir">>
PathMissing == Path("/in/missing", ".txt")
PathTmpPdf == Path("/tmp/tmpfile", ".pdf")

ExistingPaths ==
    {PathTxt, PathBlankTxt, PathHtml, PathHtm, PathEmptyHtml, PathPdf, PathBadPdf,
     PathDocx, PathXlsx, PathPptx, PathJson, PathBadJson, PathLog, PathDir}

PdfPages == << <<"a">>, <<>>, <<"b", "\n">> >>

Disk(path) ==
    CASE path = PathTxt -> TextFile(<<"a", " ", "b">>)
      [] path = PathBlankTxt -> TextFile(<<" ", "\n">>)
      [] path = PathHtml -> TextFile(<<"<p>", " ", "a", "</p>", "<p>", "b", "</p>">>)
      [] path = PathHtm -> TextFile(<<"<p>", "a", "</p>">>)
      [] path = PathEmptyHtml -> TextFile(<<"<p>", " ", "</p>">>)
      [] path = PathPdf -> File("file", <<"%">>, PdfPages, FALSE)
      [] path = PathBadPdf -> File("file", <<"%">>, <<>>, TRUE)
      [] path = PathDocx -> File("file", <<"P", "K">>, << <<"a">>, <<>>, <<"b">> >>, FALSE)
      [] path = PathXlsx ->
            File("file", <<"P", "K">>,
                 << [name |-> "Sheet1",
                     rows |-> << <<Some("a"), Some("b")>>, <<None, None>>, <<None, Some("b")>> >>] >>,
                 FALSE)
      [] path = PathPptx ->
            File("file", <<"P", "K">>, << <<Some(<<"a">>), None>>, <<>> >>, FALSE)
      [] path = PathJson -> TextFile(<<"[", " ", "1", "]">>)
      [] path = PathBadJson -> TextFile(<<"[", "1">>)
      [] path = PathLog -> TextFile(<<"a", "\n">>)
      [] path = PathDir -> File("dir", <<>>, <<>>, FALSE)
      [] OTHER -> File("missing", <<>>, <<>>, FALSE)

\* os.path.exists(path)
Exists(path, tmpfiles) == path \in ExistingPaths \/ path \in tmpfiles

\* open(path, 'r', encoding='utf-8', errors='ignore').read()
ReadFile(file) ==
    IF file.kind = "file" THEN Ok(file.raw)
    ELSE IF file.kind = "dir" THEN Raise("IsADirectoryError", <<"Is a directory">>)
    ELSE Raise("FileNotFoundError", <<"No such file or directory">>)

\* mimetypes.guess_type(path)[0], on the suffixes the model uses (it ignores case)
GuessType(path) ==
    LET e == LowerChar(Suffix(path)) IN
    CASE e \in {".html", ".htm"} -> <<"text", "/", "html">>
      [] e = ".txt" -> <<"text", "/", "plain">>
      [] e = ".md" -> <<"text", "/", "markdown">>
      [] e = ".csv" -> <<"text", "/", "csv">>
      [] e = ".pdf" -> <<"application", "/", "pdf">>
      [] e = ".json" -> <<"application", "/", "json">>
      [] e = ".docx" -> <<"application", "/", "vnd.openxmlformats-officedocument.wordprocessingml.document">>
      [] e = ".xlsx" -> <<"application", "/", "vnd.openxmlformats-officedocument.spreadsheetml.sheet">>
      [] e = ".pptx" -> <<"application", "/", "vnd.openxmlformats-officedocument.presentationml.presentation">>
      [] OTHER -> None

(* ----------------------- format-specific handlers ---------------------- *)
OptLibs == {"pdfplumber", "docx", "openpyxl", "pptx"}

\* pdfplumber: text += page_text + "\n" for each page with text; text.strip()
RECURSIVE PdfConcat(_)
PdfConcat(pages) ==
    IF pages = <<>> THEN <<>>
    ELSE (IF Head(pages) # <<>> THEN Head(pages) \o <<"\n">> ELSE <<>>)
         \o PdfConcat(Tail(pages))

PdfText(file) ==
    IF file.corrupt THEN Raise("PDFSyntaxError", <<"No /Root object">>)
    ELSE Ok(Strip(PdfConcat(file.parts)))

\* docx: '\n'.join(paragraph.text for paragraph in doc.paragraphs)
DocxText(file) ==
    IF file.corrupt THEN Raise("PackageNotFoundError", <<"Package not found">>)
    ELSE Ok(Join(<<"\n">>, file.parts))

\* [str(cell) if cell is not None else '' for cell in row]
RowText(row) == [i \in 1..Len(row) |-> IF row[i] = None THEN <<>> ELSE <<row[i][1]>>]

\* any(row_text)
AnyCell(rowText) == \E i \in 1..Len(rowText) : rowText[i] # <<>>

RECURSIVE RowLines(_)
RowLines(rows) ==
    IF rows = <<>> THEN <<>>
    ELSE (IF AnyCell(RowText(Head(rows)))
          THEN <<Join(<<"\t">>, RowText(Head(rows)))>> ELSE <<>>)
         \o RowLines(Tail(rows))

RECURSIVE SheetLines(_)
SheetLines(sheets) ==
    IF sheets = <<>> THEN <<>>
    ELSE << <<"Sheet: ", Head(sheets).name>> >> \o RowLines(Head(sheets).rows)
         \o SheetLines(Tail(sheets))

XlsxText(file) ==
    IF file.corrupt THEN Raise("BadZipFile", <<"File is not a zip file">>)
    ELSE Ok(Join(<<"\n">>, SheetLines(file.parts)))

\* str(slide_num)
IntStr(n) == CASE n = 1 -> "1" [] n = 2 -> "2" [] n = 3 -> "3" [] OTHER -> "n"

\* the texts of the shapes that have a text attribute
RECURSIVE ShapeLines(_)
ShapeLines(shapes) ==
    IF shapes = <<>> THEN <<>>
    ELSE (IF Head(shapes) # None THEN <<Head(shapes)[1]>> ELSE <<>>)
         \o ShapeLines(Tail(shapes))

RECURSIVE SlideLines(_, _)
SlideLines(slides, num) ==
    IF slides = <<>> THEN <<>>
    ELSE << <<"Slide ", IntStr(num), ":">> >> \o ShapeLines(Head(slides))
         \o SlideLines(Tail(slides), num + 1)

PptxText(file) ==
    IF file.corrupt THEN Raise("PackageNotFoundError", <<"Package not found">>)
    ELSE Ok(Join(<<"\n">>, SlideLines(file.parts, 1)))

HtmlText(file) ==
    LET r == ReadFile(file) IN IF r.ok THEN Ok(GetText(r.val)) ELSE r

\* json's whitespace skip: the first index from i on that holds no whitespace
RECURSIVE SkipWhitespace(_, _)
SkipWhitespace(s, i) ==
    IF i <= Len(s) /\ s[i] \in Whitespace THEN SkipWhitespace(s, i + 1) ELSE i

\* the end of the run of digits that starts at i
RECURSIVE DigitsEnd(_, _)
DigitsEnd(s, i) ==
    IF i <= Len(s) /\ s[i] = "1" THEN DigitsEnd(s, i + 1) ELSE i

\* json.dumps(..., indent=2): the indentation of an item at a nesting depth
RECURSIVE Indent(_)
Indent(depth) == IF depth = 0 THEN <<>> ELSE <<" ", " ">> \o Indent(depth - 1)

\* a decoded value, as the text json.dumps(value, indent=2) gives it at this
\* depth, and the index after it
Decoded(text, end) == [ok |-> TRUE, val |-> text, end |-> end]

\* json.JSONDecodeError(msg, doc, pos): the message, without its position
DecodeError(msg) == Raise("JSONDecodeError", <<msg>>)

\* the decoder's scan_once and JSONArray, on documents of digits, brackets, commas
\* and whitespace
RECURSIVE ScanOnce(_, _, _)
RECURSIVE JSONArray(_, _, _, _)
ScanOnce(s, i, depth) ==
    IF i > Len(s) THEN DecodeError("Expecting value")
    ELSE IF s[i] = "1" THEN Decoded(SubSeq(s, i, DigitsEnd(s, i) - 1), DigitsEnd(s, i))
    ELSE IF s[i] = "["
        THEN LET j == SkipWhitespace(s, i + 1) IN
             IF j <= Len(s) /\ s[j] = "]" THEN Decoded(<<"[", "]">>, j + 1)
             ELSE JSONArray(s, j, depth, <<"[", "\n">>)
    ELSE DecodeError("Expecting value")

JSONArray(s, i, depth, acc) ==
    LET v == ScanOnce(s, i, depth + 1) IN
    IF ~v.ok THEN v
    ELSE LET k == SkipWhitespace(s, v.end)
             items == acc \o Indent(depth + 1) \o v.val
         IN  IF k <= Len(s) /\ s[k] = "]"
                 THEN Decoded(items \o <<"\n">> \o Indent(depth) \o <<"]">>, k + 1)
             ELSE IF k > Len(s) \/ s[k] # ","
                 THEN DecodeError("Expecting ',' delimiter")
             ELSE JSONArray(s, SkipWhitespace(s, k + 1), depth, items \o <<",", "\n">>)

\* json.dumps(json.loads(s), indent=2)
JsonDumpsLoads(s) ==
    LET v == ScanOnce(s, SkipWhitespace(s, 1), 0) IN
    IF ~v.ok THEN v
    ELSE IF SkipWhitespace(s, v.end) <= Len(s) THEN DecodeError("Extra data")
    ELSE Ok(v.val)

\* data = json.load(f); return json.dumps(data, indent=2)
JsonText(file) ==
    LET r == ReadFile(file) IN IF ~r.ok THEN r ELSE JsonDumpsLoads(r.val)

(* ------------------------ extract_text_from_file ----------------------- *)
\* the branch of the if/elif chain that runs: libs is the set of optional
\* document libraries that imported
Branch(mime, ext, libs) ==
    IF (mime # None /\ Contains(mime, <<"text">>)) \/ ext \in {".txt", ".md", ".csv"}
        THEN "text"
    ELSE IF ext = ".pdf" /\ "pdfplumber" \in libs THEN "pdf"
    ELSE IF ext \in {".docx", ".doc"} /\ "docx" \in libs THEN "docx"
    ELSE IF ext \in {".xlsx", ".xls"} /\ "openpyxl" \in libs THEN "xlsx"
    ELSE IF ext \in {".pptx", ".ppt"} /\ "pptx" \in libs THEN "pptx"
    ELSE IF ext \in {".html", ".htm"} \/ (mime # None /\ Contains(mime, <<"html">>))
        THEN "html"
    ELSE IF ext = ".json" THEN "json"
    ELSE "fallback"

Handle(branch, file) ==
    CASE branch = "pdf" -> PdfText(file)
      [] branch = "docx" -> DocxText(file)
      [] branch = "xlsx" -> XlsxText(file)
      [] branch = "pptx" -> PptxText(file)
      [] branch = "html" -> HtmlText(file)
      [] branch = "json" -> JsonText(file)
      [] OTHER -> ReadFile(file)

\* ExtractionError naming the file's path where the code names its suffix
ExtractionError_NamingPath(file_path, file_ext, cause) ==
    Raise("ValueError", <<"Failed to extract text from ">> \o file_path
                            \o <<" file: ">> \o cause)

\* raise ValueError(f"Failed to extract text from {file_ext} file: {str(e)}")
ExtractionError(file_path, file_ext, cause) ==
    Raise("ValueError", <<"Failed to extract text from ", file_ext, " file: ">> \o cause)

extract_text_from_file(file_path, file, mime_type, libs) ==
    LET mime == IF mime_type = None THEN GuessType(file_path) ELSE mime_type
        file_ext == LowerChar(Suffix(file_path))
        r == Handle(Branch(mime, file_ext, libs), file)
    IN  IF r.ok THEN r ELSE ExtractionError(file_path, file_ext, r.msg)

(* -------------------- download_and_extract_from_url -------------------- *)
\* what requests.get(url) does: status "ok", "unreachable" (get raises) or
\* "http_error" (raise_for_status raises); content_type is the header as sent
\* (None when absent), body the decoded body, pages the page texts of a PDF body
\* (corrupt: the body is no PDF and the PDF library raises on it)
Response(status, content_type, body, pages, corrupt) ==
    [status |-> status, content_type |-> content_type, body |-> body, pages |-> pages,
     corrupt |-> corrupt]

UrlResponses ==
    { Response("unreachable", None, <<>>, <<>>, FALSE),
      Response("http_error", None, <<>>, <<>>, FALSE),
      Response("ok", <<"Text", "/", "HTML", ";", " ", "charset=utf-8">>,
               <<"<p>", "a", " ", "</p>">>, <<>>, FALSE),
      Response("ok", <<"text", "/", "plain">>, <<"a", "\n">>, <<>>, FALSE),
      Response("ok", <<"text", "/", "plain">>, <<" ">>, <<>>, FALSE),
      Response("ok", <<"application", "/", "pdf">>, <<"%">>, PdfPages, FALSE),
      Response("ok", <<"application", "/", "pdf">>, <<"a">>, <<>>, TRUE),
      Response("ok", <<"application", "/", "json">>, <<"1">>, <<>>, FALSE),
      Response("ok", None, <<"a">>, <<>>, FALSE) }

\* the object addresses a process may print in the text of a connection error:
\* str(e) of requests' ConnectionError quotes the repr of the connection object
Addresses == {"0x7f01", "0x7f02"}

\* response.headers.get('content-type', '').lower()
ContentType(resp) == IF resp.content_type = None THEN <<>> ELSE Lower(resp.content_type)

\* the branch of download_and_extract_from_url's if/elif chain that runs
UrlBranch(resp, libs) ==
    LET content_type == ContentType(resp) IN
    IF Contains(content_type, <<"text", "/", "html">>) THEN "html"
    ELSE IF Contains(content_type, <<"text", "/">>) THEN "text"
    ELSE IF Contains(content_type, <<"application", "/", "pdf">>) /\ "pdfplumber" \in libs
        THEN "pdf"
    ELSE "other"

\* tmp_file is the name NamedTemporaryFile gives the PDF, address the address of
\* this process's connection object
download_and_extract_from_url(url, resp, libs, tmp_file, address) ==
    LET branch == UrlBranch(resp, libs)
        r == IF resp.status = "unreachable"
                 THEN Raise("ConnectionError",
                            <<"Max retries exceeded (Caused by NewConnectionError(",
                              "'<urllib3.connection.HTTPSConnection object at ", address,
                              ">: Failed to establish a new connection'))">>)
             ELSE IF resp.status = "http_error"
                 THEN Raise("HTTPError", <<"404 Client Error">>)
             ELSE IF branch = "html" THEN Ok(GetText(resp.body))
             ELSE IF branch = "pdf"
                 THEN extract_text_from_file(tmp_file,
                                             File("file", resp.body, resp.pages,
                                                  resp.corrupt),
                                             <<"application", "/", "pdf">>, libs)
             ELSE Ok(resp.body)
    IN  IF r.ok THEN r
        ELSE Raise("ValueError",
                   <<"Failed to download or extract text from URL: ">> \o r.msg)

(* ---------------------- configurations and results --------------------- *)
\* the sentinel compared in another capitalisation
SENTINEL_Capitalized == "Extract Text Content"

SENTINEL == "Extract text content"

\* required_fields listed in another order
required_fields_Reversed == <<"modelId", "examples", "promptDescription", "inputText">>

required_fields == <<"inputText", "promptDescription", "examples", "modelId">>

GoodExample ==
    [text |-> <<"a">>,
     extractions |-> << [extraction_class |-> "A", extraction_text |-> <<"a">>,
                         attributes |-> "{}"] >>]
\* an example whose extraction has no attributes key
PlainExample ==
    [text |-> <<"a">>,
     extractions |-> << [extraction_class |-> "A", extraction_text |-> <<"a">>] >>]
\* an example with no extractions key
BadExample == [text |-> <<"a">>]

UrlHttp == <<"http://", "h">>
UrlHttps == <<"https://", "h">>

\* a key's value in a decoded JSON object is optional: None when the key is absent
Optional(values) == {None} \cup {Some(v) : v \in values}

\* a decoded JSON document: an object (fields: key -> optional value) or another kind
Json(kind, fields) == [kind |-> kind, fields |-> fields]

NoFieldsA ==
    [inputText |-> None, promptDescription |-> None, examples |-> None,
     modelId |-> None, filePath |-> None, apiKey |-> None]

\* the configuration objects Runner A is given in the model
ObjectsA ==
    { Json("object", f) :
        f \in [inputText : Optional({<<"a">>, <<" ">>, UrlHttp, UrlHttps}),
               promptDescription : Optional({"Extract text content", "Extract names"}),
               examples : Optional({<<GoodExample>>, <<PlainExample>>, <<BadExample>>}),
               modelId : Optional({"gemini-2.5-flash"}),
               filePath : Optional(ExistingPaths \cup {PathMissing, <<>>}),
               apiKey : Optional({"", "key-config"})] }

NoFieldsB ==
    [text |-> None, prompt_description |-> None, examples |-> None,
     model_id |-> None, api_key |-> None]

\* the configuration objects Runner B's --config file holds in the model
ObjectsB ==
    { Json("object", f) :
        f \in [text : Optional({<<"a">>}),
               prompt_description : Optional({"Extract names"}),
               examples : Optional({<<GoodExample>>, <<PlainExample>>, <<BadExample>>}),
               model_id : Optional({"gemini-2.5-flash"}),
               api_key : Optional({"", "key-config"})] }

\* documents that are not objects, and input that is not JSON at all
OtherDocuments(nofields) ==
    {Json("malformed", nofields), Json("list", nofields), Json("number", nofields)}

\* dict.get(key): None when the key is absent
Get(config, key) == config.fields[key]

\* Python truthiness of an optional string
Truthy(opt) == opt # None /\ opt[1] # ""

\* a or b
Or(a, b) == IF Truthy(a) THEN a ELSE b

\* the process environment: each variable is optional
Environments ==
    [GEMINI_API_KEY : Optional({"key-gemini"}),
     LANGEXTRACT_API_KEY : Optional({"key-langextract"}),
     OPENAI_API_KEY : Optional({"key-openai"})]

\* os.environ.get(name)
Getenv(env, name) == env[name]

\* the write to os.environ left out
Setenv_Skipped(env, name, value) == env

\* os.environ[name] = value
Setenv(env, name, value) == [env EXCEPT ![name] = Some(value)]

(* --------------------------- library results --------------------------- *)
\* an Extraction object the library returns; confidence is optional, attributes
\* is "{}" or "<object>" (a value json cannot serialize)
Extraction(class, attributes, confidence) ==
    [extraction_class |-> class, extraction_text |-> <<"a">>,
     attributes |-> attributes, confidence |-> confidence]

\* what lx.extract does: kind "raises" (an exception), "no_attr" (a result with no
\* extractions attribute), "none" (extractions is None), "not_iterable"
\* (extractions is a non-zero number) or "list" (a list of Extraction objects)
Result(kind, extractions) == [kind |-> kind, extractions |-> extractions]

Classes == {"A", "B"}
Confidences == {None, Some(0), Some(50), Some(70)}

RECURSIVE ListsUpTo(_, _)
ListsUpTo(S, n) ==
    IF n = 0 THEN {<<>>}
    ELSE LET shorter == ListsUpTo(S, n - 1)
         IN  shorter \cup {Append(l, x) : l \in {m \in shorter : Len(m) = n - 1}, x \in S}

\* every list of at most MaxExtractions serializable extractions
ListResults ==
    { Result("list", l) :
        l \in ListsUpTo({Extraction(c, "{}", k) : c \in Classes, k \in Confidences},
                        MaxExtractions) }

\* the library behaviours the pipeline is run against
LibSamples ==
    { Result("raises", <<>>), Result("no_attr", <<>>), Result("none", <<>>),
      Result("not_iterable", <<>>), Result("list", <<>>),
      Result("list", <<Extraction("A", "<object>", None)>>),
      Result("list", <<Extraction("A", "{}", Some(50)), Extraction("A", "{}", Some(70)),
                       Extraction("B", "{}", None)>>) }

(* -------------------------- result normalizer -------------------------- *)
\* the dict built from one returned Extraction (both runners)
ToDict(extraction) ==
    [extraction_class |-> extraction.extraction_class,
     extraction_text |-> extraction.extraction_text,
     attributes |-> extraction.attributes,
     position_start |-> None, position_end |-> None,
     confidence |-> extraction.confidence]

ToDicts(extractions) == [i \in 1..Len(extractions) |-> ToDict(extractions[i])]

RECURSIVE Sum(_)
Sum(xs) == IF xs = <<>> THEN 0 ELSE Head(xs) + Sum(Tail(xs))

\* a quotient num / den of two numbers (confidences are in hundredths)
Quotient(num, den) == [num |-> num, den |-> den]
Zero == Quotient(0, 1)
SameNumber(p, q) == p.num * q.den = q.num * p.den

\* len(set(e['extraction_class'] for e in extractions))
UniqueClasses(dicts) == Cardinality({dicts[i].extraction_class : i \in 1..Len(dicts)})

\* ConfidencesA testing `if confidence:` instead of `is not None`: 0 is dropped
RECURSIVE ConfidencesA_Truthy(_)
ConfidencesA_Truthy(dicts) ==
    IF dicts = <<>> THEN <<>>
    ELSE (IF Head(dicts).confidence # None /\ Head(dicts).confidence[1] # 0
          THEN <<Head(dicts).confidence[1]>> ELSE <<>>)
         \o ConfidencesA_Truthy(Tail(dicts))

\* Runner A: confidences.append(c) for each extraction whose confidence is not None
RECURSIVE ConfidencesA(_)
ConfidencesA(dicts) ==
    IF dicts = <<>> THEN <<>>
    ELSE (IF Head(dicts).confidence # None THEN <<Head(dicts).confidence[1]>> ELSE <<>>)
         \o ConfidencesA(Tail(dicts))

\* Runner A: sum(confidences) / len(confidences) if confidences, else the initial 0
AverageA(dicts) ==
    LET confidences == ConfidencesA(dicts)
    IN  IF confidences # <<>> THEN Quotient(Sum(confidences), Len(confidences)) ELSE Zero

\* Runner B: ext.get("confidence", 1.0): the key is always there, so its value
DictGetConfidence(dict, default) ==
    IF "confidence" \in DOMAIN dict THEN dict.confidence ELSE Some(default)

\* Runner B: [ext.get("confidence", 1.0) for ext in extractions
\*            if ext.get("confidence") is not None]
RECURSIVE ConfidencesB(_)
ConfidencesB(dicts) ==
    IF dicts = <<>> THEN <<>>
    ELSE (IF Head(dicts).confidence # None
          THEN <<DictGetConfidence(Head(dicts), 100)[1]>> ELSE <<>>)
         \o ConfidencesB(Tail(dicts))

\* Runner B: sum(confidences) / len(confidences) if confidences else 0.0
AverageB(dicts) ==
    LET confidences == ConfidencesB(dicts)
    IN  IF confidences # <<>> THEN Quotient(Sum(confidences), Len(confidences)) ELSE Zero

\* json.dumps raises TypeError on a value it cannot serialize
Serializable(dicts) == \A i \in 1..Len(dicts) : dicts[i].attributes # "<object>"

(* ------------------------------- state --------------------------------- *)
VARIABLES
    runner,       \* "A" (enhanced_langextract_runner) or "B" (langextract_runner)
    run,          \* the number of this invocation, 1..MaxRuns
    pc,           \* the step the process is at
    argv,         \* Runner B: the command line
    source,       \* the JSON document on stdin (A) or in the --config file (B)
    environ0,     \* the environment every invocation is started in
    world,        \* what the invocations have found out about the outside world
    tmpfiles,     \* the temporary files on disk (never deleted)
    environ,      \* os.environ of the running process
    config,       \* the decoded configuration
    input_text,   \* A: the resolved input text
    api_key,      \* the resolved credential (optional)
    examples,     \* the examples translated for the library
    result,       \* the library's result; B: the dict run_extraction returns
    output,       \* A: the envelope under construction
    stdout,       \* the JSON objects printed so far
    exit_status,  \* the process exit status once pc = "done"
    events,       \* the side effects of this invocation, in order
    previous      \* stdout and exit status of the earlier invocations

process == <<environ, config, input_text, api_key, examples, result, output, stdout,
             exit_status, events>>
given == <<runner, argv, source, environ0>>
vars == <<runner, run, pc, argv, source, environ0, world, tmpfiles, environ, config,
          input_text, api_key, examples, result, output, stdout, exit_status, events,
          previous>>

\* the modules the script imports at module level outside any try: `import requests`
\* and `from bs4 import BeautifulSoup`
RequiredLibs == <<"requests", "bs4">>

Modules == OptLibs \cup {"requests", "bs4"} \cup {"langextract"}

\* nothing is known about the world before it is asked
Unknown == [modules |-> [m \in Modules |-> "unknown"], url |-> None, lib |-> None]

\* the modules in libs imported, the others did not: consistent with what is known
Consistent(libs) ==
    \A m \in OptLibs :
        \/ world.modules[m] = "unknown"
        \/ world.modules[m] = (IF m \in libs THEN "yes" ELSE "no")

\* what was found out by testing the modules in asked
Learn(asked, libs) ==
    [m \in Modules |-> IF m \in asked THEN (IF m \in libs THEN "yes" ELSE "no")
                       ELSE world.modules[m]]

\* the optional library whose import extract_text_from_file tests for a suffix
LibFor(ext) ==
    CASE ext = ".pdf" -> {"pdfplumber"}
      [] ext \in {".docx", ".doc"} -> {"docx"}
      [] ext \in {".xlsx", ".xls"} -> {"openpyxl"}
      [] ext \in {".pptx", ".ppt"} -> {"pptx"}
      [] OTHER -> {}

AskedForFile(path) ==
    IF Branch(GuessType(path), LowerChar(Suffix(path)), {}) = "text" THEN {}
    ELSE LibFor(LowerChar(Suffix(path)))

AskedForUrl(resp) ==
    IF resp.status = "ok" /\ UrlBranch(resp, {"pdfplumber"}) = "pdf" THEN {"pdfplumber"}
    ELSE {}

\* elapsed wall-clock times, in milliseconds
Times == {5, 9}

TmpStem(i) ==
    CASE i = 1 -> "/tmp/tmp1" [] i = 2 -> "/tmp/tmp2" [] i = 3 -> "/tmp/tmp3"
      [] i = 4 -> "/tmp/tmp4" [] OTHER -> "/tmp/tmp5"

\* tempfile.NamedTemporaryFile(suffix=..., delete=False): a name not in use
FreshNames(suffix) == {Path(TmpStem(i), suffix) : i \in 1..MaxRuns} \ tmpfiles

Event(op, arg) == [op |-> op, arg |-> arg]

NoConfig == Json("unread", IF runner = "A" THEN NoFieldsA ELSE NoFieldsB)
NoResult == Result("unset", <<>>)
NoOutput == [success |-> FALSE]

Fresh ==
    /\ environ = environ0
    /\ config = NoConfig
    /\ input_text = <<>>
    /\ api_key = None
    /\ examples = <<>>
    /\ result = NoResult
    /\ output = NoOutput
    /\ stdout = <<>>
    /\ exit_status = 0
    /\ events = <<>>

InitA ==
    /\ runner = "A"
    /\ pc = "load"
    /\ argv = <<>>
    /\ source \in ObjectsA \cup OtherDocuments(NoFieldsA)
    /\ environ0 \in {e \in Environments :
                        e.LANGEXTRACT_API_KEY = None /\ e.OPENAI_API_KEY = None}

(* ------------------------------ Runner A ------------------------------- *)
\* the except clause of main: print the error envelope and sys.exit(1)
FailA(type, msg, where) ==
    /\ stdout' = Append(stdout, [success |-> FALSE, error |-> msg, type |-> type,
                                 traceback |-> <<"Traceback (most recent call last):",
                                                 where, type, ": ">> \o msg])
    /\ exit_status' = 1
    /\ pc' = "done"

\* the first of the modules in libs that is not installed, if any
RECURSIVE FirstNotInstalled(_, _)
FirstNotInstalled(libs, installed) ==
    IF libs = <<>> THEN None
    ELSE IF Head(libs) \notin installed THEN Some(Head(libs))
    ELSE FirstNotInstalled(Tail(libs), installed)

\* the modules an import statement asked for before the script stopped or got through
RECURSIVE Imported(_, _)
Imported(libs, installed) ==
    IF libs = <<>> THEN {}
    ELSE IF Head(libs) \notin installed THEN {Head(libs)}
    ELSE {Head(libs)} \cup Imported(Tail(libs), installed)

\* the script is loaded: `import requests`, the guarded optional imports, `from bs4
\* import BeautifulSoup`. The two unguarded imports are outside main's try: when one
\* fails the process dies of ModuleNotFoundError before main is entered, with the
\* traceback on stderr, nothing on stdout and exit status 1, and stdin is never read
A_LoadModule ==
    /\ runner = "A" /\ pc = "load"
    /\ \E installed \in SUBSET {"requests", "bs4"} :
        LET missing == FirstNotInstalled(RequiredLibs, installed)
            asked == Imported(RequiredLibs, installed)
        IN  /\ \A m \in asked :
                   world.modules[m] \in {"unknown", IF m \in installed THEN "yes" ELSE "no"}
            /\ world' = [world EXCEPT !.modules = Learn(asked, installed)]
            /\ IF missing # None
               THEN /\ exit_status' = 1
                    /\ pc' = "done"
               ELSE /\ pc' = "start"
                    /\ UNCHANGED exit_status
    /\ UNCHANGED <<given, run, tmpfiles, environ, config, input_text, api_key, examples,
                   result, output, stdout, events, previous>>

\* config = json.loads(sys.stdin.read())
A_ReadConfig ==
    /\ runner = "A" /\ pc = "start"
    /\ IF source.kind = "malformed"
       THEN /\ FailA("JSONDecodeError", <<"Expecting value">>, "json.loads")
            /\ UNCHANGED config
       ELSE /\ config' = source
            /\ pc' = "validate"
            /\ UNCHANGED <<stdout, exit_status>>
    /\ UNCHANGED <<given, run, world, tmpfiles, environ, input_text, api_key, examples,
                   result, output, events, previous>>

\* `field in config`
In(field, cfg) == cfg.kind = "object" /\ cfg.fields[field] # None

\* the first required field that is not in config, if any
RECURSIVE FirstMissing(_, _)
FirstMissing(fields, cfg) ==
    IF fields = <<>> THEN None
    ELSE IF ~In(Head(fields), cfg) THEN Some(Head(fields))
    ELSE FirstMissing(Tail(fields), cfg)

\* for field in required_fields: if field not in config: raise ValueError
A_Validate ==
    /\ runner = "A" /\ pc = "validate"
    /\ LET missing == FirstMissing(required_fields, config) IN
       IF config.kind = "number"
       THEN FailA("TypeError", <<"argument of type 'int' is not iterable">>, "validate")
       ELSE IF missing # None
       THEN FailA("ValueError", <<"Missing required field: ", missing[1]>>, "validate")
       ELSE /\ pc' = "resolve"
            /\ UNCHANGED <<stdout, exit_status>>
    /\ UNCHANGED <<given, run, world, tmpfiles, environ, config, input_text, api_key,
                   examples, result, output, events, previous>>

\* Resolution testing for a URL before it tests for a file
Resolution_UrlFirst(cfg) ==
    LET file_path == Get(cfg, "filePath")
        text == cfg.fields.inputText[1]
    IN  IF StartsWith(text, <<"http://">>) \/ StartsWith(text, <<"https://">>)
            THEN "url"
        ELSE IF file_path # None /\ file_path[1] # <<>> /\ Exists(file_path[1], tmpfiles)
            THEN "file"
        ELSE "literal"

\* the input text is taken from the file, from the URL, or as it is
Resolution(cfg) ==
    LET file_path == Get(cfg, "filePath")
        text == cfg.fields.inputText[1]
    IN  IF file_path # None /\ file_path[1] # <<>> /\ Exists(file_path[1], tmpfiles)
            THEN "file"
        ELSE IF StartsWith(text, <<"http://">>) \/ StartsWith(text, <<"https://">>)
            THEN "url"
        ELSE "literal"

\* the sentinel's early return: print the extracted text and return
ReturnText(text) ==
    \E elapsed \in Times :
        /\ stdout' = Append(stdout,
                            [success |-> TRUE, extractedText |-> text,
                             metadata |-> [inputLength |-> Chars(text),
                                           processingTime |-> elapsed]])
        /\ exit_status' = 0
        /\ pc' = "done"

\* `if file_path and os.path.exists(file_path): ...`
ResolveFile ==
    LET file_path == Get(config, "filePath")[1] IN
    \E libs \in SUBSET OptLibs :
        /\ Consistent(libs)
        /\ world' = [world EXCEPT !.modules = Learn(AskedForFile(file_path), libs)]
        /\ events' = Append(events, Event("read_file", file_path))
        /\ tmpfiles' = tmpfiles
        /\ LET r == extract_text_from_file(file_path, Disk(file_path), None, libs) IN
           IF ~r.ok
           THEN /\ FailA("ValueError", <<"File processing failed: ">> \o r.msg, "file")
                /\ input_text' = config.fields.inputText[1]
           ELSE IF Strip(r.val) = <<>>
           THEN /\ FailA("ValueError",
                         <<"File processing failed: ",
                           "No text could be extracted from the file">>, "file")
                /\ input_text' = r.val
           ELSE IF config.fields.promptDescription[1] = SENTINEL
           THEN /\ ReturnText(r.val)
                /\ input_text' = r.val
           ELSE /\ input_text' = r.val
                /\ pc' = "credential"
                /\ UNCHANGED <<stdout, exit_status>>

\* `elif input_text.startswith(('http://', 'https://')): ...`
ResolveUrl ==
    LET url == config.fields.inputText[1] IN
    \E libs \in SUBSET OptLibs, resp \in UrlResponses, address \in Addresses :
      LET saved == resp.status = "ok" /\ UrlBranch(resp, libs) = "pdf" IN
      \E tmp \in IF saved THEN FreshNames(".pdf") ELSE {PathTmpPdf} :
        /\ Consistent(libs)
        /\ world.url \in {None, Some(resp)}
        /\ world' = [world EXCEPT !.modules = Learn(AskedForUrl(resp), libs),
                                  !.url = Some(resp)]
        /\ IF saved
           THEN /\ tmpfiles' = tmpfiles \cup {tmp}
                /\ events' = events \o <<Event("fetch_url", url), Event("mkstemp", tmp),
                                         Event("read_file", tmp)>>
           ELSE /\ tmpfiles' = tmpfiles
                /\ events' = Append(events, Event("fetch_url", url))
        /\ LET r == download_and_extract_from_url(url, resp, libs, tmp, address) IN
           IF ~r.ok
           THEN /\ FailA("ValueError", <<"URL processing failed: ">> \o r.msg, "url")
                /\ input_text' = url
           ELSE IF Strip(r.val) = <<>>
           THEN /\ FailA("ValueError",
                         <<"URL processing failed: ",
                           "No text could be extracted from the URL">>, "url")
                /\ input_text' = r.val
           ELSE /\ input_text' = r.val
                /\ pc' = "credential"
                /\ UNCHANGED <<stdout, exit_status>>

ResolveLiteral ==
    /\ input_text' = config.fields.inputText[1]
    /\ pc' = "credential"
    /\ UNCHANGED <<stdout, exit_status, world, tmpfiles, events>>

\* main, "Handle file input if provided" and "Handle URL input"
A_ResolveInput ==
    /\ runner = "A" /\ pc = "resolve"
    /\ LET how == Resolution(config) IN
       CASE how = "file" -> ResolveFile
         [] how = "url" -> ResolveUrl
         [] OTHER -> ResolveLiteral
    /\ UNCHANGED <<given, run, environ, config, api_key, examples, result, output,
                   previous>>

\* api_key = config.get('apiKey') or os.environ.get('GEMINI_API_KEY');
\* os.environ['GEMINI_API_KEY'] = api_key
A_Credential ==
    /\ runner = "A" /\ pc = "credential"
    /\ LET key == Or(Get(config, "apiKey"), Getenv(environ, "GEMINI_API_KEY")) IN
       IF ~Truthy(key)
       THEN /\ FailA("ValueError",
                     <<"No API key provided. Set GEMINI_API_KEY environment variable.">>,
                     "credential")
            /\ api_key' = key
            /\ UNCHANGED <<environ, events>>
       ELSE /\ api_key' = key
            /\ environ' = Setenv(environ, "GEMINI_API_KEY", key[1])
            /\ events' = Append(events, Event("setenv", <<"GEMINI_API_KEY", key[1]>>))
            /\ pc' = "import"
            /\ UNCHANGED <<stdout, exit_status>>
    /\ UNCHANGED <<given, run, world, tmpfiles, config, input_text, examples, result,
                   output, previous>>

\* import langextract as lx
A_ImportLibrary ==
    /\ runner = "A" /\ pc = "import"
    /\ \E found \in BOOLEAN :
        LET libs == IF found THEN {"langextract"} ELSE {} IN
        /\ world.modules["langextract"] \in {"unknown", IF found THEN "yes" ELSE "no"}
        /\ world' = [world EXCEPT !.modules = Learn({"langextract"}, libs)]
        /\ events' = Append(events, Event("import", "langextract"))
        /\ IF ~found
           THEN FailA("ValueError",
                      <<"LangExtract library not available: ",
                        "No module named 'langextract'">>, "import")
           ELSE /\ pc' = "examples"
                /\ UNCHANGED <<stdout, exit_status>>
    /\ UNCHANGED <<given, run, tmpfiles, environ, config, input_text, api_key, examples,
                   result, output, previous>>

\* lx.data.Extraction(...) for Runner A: extraction_data.get('attributes', {})
TranslateExtractionA(e) ==
    [extraction_class |-> e.extraction_class, extraction_text |-> e.extraction_text,
     attributes |-> IF "attributes" \in DOMAIN e THEN e.attributes ELSE "{}"]

\* lx.data.ExampleData(text=..., extractions=[...]) for Runner A
TranslateA(example) ==
    IF "extractions" \notin DOMAIN example THEN Raise("KeyError", <<"'extractions'">>)
    ELSE Ok([text |-> example.text,
             extractions |-> [i \in 1..Len(example.extractions) |->
                                 TranslateExtractionA(example.extractions[i])]])

\* main, "Prepare examples"
A_PrepareExamples ==
    /\ runner = "A" /\ pc = "examples"
    /\ LET given_examples == config.fields.examples[1]
           translated == [i \in 1..Len(given_examples) |-> TranslateA(given_examples[i])]
           bad == {i \in 1..Len(given_examples) : ~translated[i].ok}
       IN  IF bad # {}
           THEN /\ LET first == CHOOSE i \in bad : \A j \in bad : i <= j
                   IN  FailA(translated[first].type, translated[first].msg, "examples")
                /\ UNCHANGED examples
           ELSE /\ examples' = [i \in 1..Len(given_examples) |-> translated[i].val]
                /\ pc' = "extract"
                /\ UNCHANGED <<stdout, exit_status>>
    /\ UNCHANGED <<given, run, world, tmpfiles, environ, config, input_text, api_key,
                   result, output, events, previous>>

\* the library behaviours open to this invocation: the one already observed, if any
Behaviours == IF world.lib = None THEN LibSamples ELSE {world.lib[1]}

\* the arguments of lx.extract, with the environment it runs in
Call(text, prompt, model, key, char_buffer) ==
    [text_or_documents |-> text, prompt_description |-> prompt, examples |-> examples,
     model_id |-> model, extraction_passes |-> 1, max_workers |-> 5,
     max_char_buffer |-> char_buffer, api_key |-> key, environ |-> environ]

\* main, "Run extraction with error handling"
A_CallLibrary ==
    /\ runner = "A" /\ pc = "extract"
    /\ \E r \in Behaviours :
        /\ world' = [world EXCEPT !.lib = Some(r)]
        /\ events' = Append(events,
                            Event("extract",
                                  Call(input_text, config.fields.promptDescription[1],
                                       config.fields.modelId[1], None, Some(10000))))
        /\ IF r.kind = "raises"
           THEN /\ FailA("ValueError",
                         <<"LangExtract processing failed: ", "API error">>, "extract")
                /\ UNCHANGED result
           ELSE /\ result' = r
                /\ pc' = "normalize"
                /\ UNCHANGED <<stdout, exit_status>>
    /\ UNCHANGED <<given, run, tmpfiles, environ, config, input_text, api_key, examples,
                   output, previous>>

\* Runner A's metadata for the extraction dicts
MetadataA(dicts, processing_time, text) ==
    [totalExtractions |-> Len(dicts),
     uniqueClasses |-> UniqueClasses(dicts),
     processingTime |-> processing_time,
     inputLength |-> Chars(text),
     averageConfidence |-> AverageA(dicts)]

\* `hasattr(result, 'extractions') and result.extractions`
HasExtractionsA(res) == res.kind = "not_iterable" \/ (res.kind = "list" /\ res.extractions # <<>>)

\* main, "Convert result to JSON-serializable format"
A_Normalize ==
    /\ runner = "A" /\ pc = "normalize"
    /\ \E processing_time \in Times :
        IF HasExtractionsA(result) /\ result.kind = "not_iterable"
        THEN /\ FailA("TypeError", <<"'int' object is not iterable">>, "normalize")
             /\ UNCHANGED output
        ELSE /\ LET dicts == IF HasExtractionsA(result) THEN ToDicts(result.extractions)
                             ELSE <<>>
                IN  output' = [success |-> TRUE, extractions |-> dicts,
                               metadata |-> MetadataA(dicts, processing_time, input_text),
                               visualization_file |-> None]
             /\ pc' = "visualize"
             /\ UNCHANGED <<stdout, exit_status>>
    /\ UNCHANGED <<given, run, world, tmpfiles, environ, config, input_text, api_key,
                   examples, result, events, previous>>

\* main, "Save results to temporary file for visualization"
A_SaveVisualization ==
    /\ runner = "A" /\ pc = "visualize"
    /\ IF output.extractions # <<>>
       THEN \E tmp \in FreshNames(".jsonl") :
               /\ tmpfiles' = tmpfiles \cup {tmp}
               /\ events' = Append(events, Event("mkstemp", tmp))
               /\ IF ~Serializable(output.extractions)
                  THEN /\ FailA("TypeError",
                                <<"Object of type object is not JSON serializable">>,
                                "visualize")
                       /\ UNCHANGED output
                  ELSE /\ output' = [output EXCEPT !.visualization_file = Some(tmp)]
                       /\ pc' = "emit"
                       /\ UNCHANGED <<stdout, exit_status>>
       ELSE /\ pc' = "emit"
            /\ UNCHANGED <<tmpfiles, events, output, stdout, exit_status>>
    /\ UNCHANGED <<given, run, world, environ, config, input_text, api_key, examples,
                   result, previous>>

\* print(json.dumps(output))
A_Emit ==
    /\ runner = "A" /\ pc = "emit"
    /\ IF ~Serializable(output.extractions)
       THEN FailA("TypeError", <<"Object of type object is not JSON serializable">>,
                  "emit")
       ELSE /\ stdout' = Append(stdout, output)
            /\ exit_status' = 0
            /\ pc' = "done"
    /\ UNCHANGED <<given, run, world, tmpfiles, environ, config, input_text, api_key,
                   examples, result, output, events, previous>>

(* ------------------------------ Runner B ------------------------------- *)
InitB ==
    /\ runner = "B"
    /\ pc = "b_import"
    /\ argv \in {<<>>, <<"--config", "/in/config.json">>}
    /\ source \in ObjectsB \cup OtherDocuments(NoFieldsB) \cup {Json("unreadable", NoFieldsB)}
    /\ environ0 \in Environments

\* the module's import guard: try: import langextract as lx
\* except ImportError: print(json.dumps({"error": ...})); sys.exit(1)
B_ImportLibrary ==
    /\ runner = "B" /\ pc = "b_import"
    /\ \E found \in BOOLEAN :
        LET libs == IF found THEN {"langextract"} ELSE {} IN
        /\ world.modules["langextract"] \in {"unknown", IF found THEN "yes" ELSE "no"}
        /\ world' = [world EXCEPT !.modules = Learn({"langextract"}, libs)]
        /\ events' = Append(events, Event("import", "langextract"))
        /\ IF ~found
           THEN /\ stdout' = Append(stdout,
                                    [error |-> <<"langextract not installed. ",
                                                 "Please install with: pip install langextract">>])
                /\ exit_status' = 1
                /\ pc' = "done"
           ELSE /\ pc' = "b_args"
                /\ UNCHANGED <<stdout, exit_status>>
    /\ UNCHANGED <<given, run, tmpfiles, environ, config, input_text, api_key, examples,
                   result, output, previous>>

\* parser.add_argument("--config", required=True); args = parser.parse_args()
B_ParseArgs ==
    /\ runner = "B" /\ pc = "b_args"
    /\ IF argv = <<>>
       THEN /\ exit_status' = 2
            /\ pc' = "done"
       ELSE /\ pc' = "b_load"
            /\ UNCHANGED exit_status
    /\ UNCHANGED <<given, run, world, tmpfiles, environ, config, input_text, api_key,
                   examples, result, output, stdout, events, previous>>

\* the except clause of __main__: print the error envelope; the script then ends
FailB(msg) ==
    /\ stdout' = Append(stdout, [success |-> FALSE, error |-> msg])
    /\ exit_status' = 0
    /\ pc' = "done"

\* with open(args.config, 'r') as f: config = json.load(f)
B_LoadConfig ==
    /\ runner = "B" /\ pc = "b_load"
    /\ IF source.kind = "unreadable"
       THEN /\ FailB(<<"[Errno 2] No such file or directory: ", argv[2]>>)
            /\ UNCHANGED config
       ELSE IF source.kind = "malformed"
       THEN /\ FailB(<<"Expecting value">>)
            /\ UNCHANGED config
       ELSE /\ config' = source
            /\ pc' = "b_examples"
            /\ UNCHANGED <<stdout, exit_status>>
    /\ UNCHANGED <<given, run, world, tmpfiles, environ, input_text, api_key, examples,
                   result, output, events, previous>>

\* the except clause of run_extraction: return the error dict
ReturnError(msg) ==
    /\ output' = [success |-> FALSE, error |-> msg]
    /\ pc' = "b_print"

\* config[key]
Subscript(cfg, key) ==
    IF cfg.kind = "list"
        THEN Raise("TypeError", <<"list indices must be integers or slices, not str">>)
    ELSE IF cfg.kind = "number"
        THEN Raise("TypeError", <<"'int' object is not subscriptable">>)
    ELSE IF cfg.fields[key] = None THEN Raise("KeyError", <<"'", key, "'">>)
    ELSE Ok(cfg.fields[key][1])

\* lx.data.ExampleData(...) for Runner B: ext["attributes"] must be there
TranslateB(example) ==
    IF "extractions" \notin DOMAIN example THEN Raise("KeyError", <<"'extractions'">>)
    ELSE IF \E i \in 1..Len(example.extractions) :
                "attributes" \notin DOMAIN example.extractions[i]
        THEN Raise("KeyError", <<"'attributes'">>)
    ELSE Ok([text |-> example.text, extractions |-> example.extractions])

\* run_extraction, "Prepare examples"
B_PrepareExamples ==
    /\ runner = "B" /\ pc = "b_examples"
    /\ LET got == Subscript(config, "examples")
           translated == [i \in 1..Len(got.val) |-> TranslateB(got.val[i])]
           bad == {i \in 1..Len(got.val) : ~translated[i].ok}
       IN  IF ~got.ok
           THEN ReturnError(got.msg) /\ UNCHANGED examples
           ELSE IF bad # {}
           THEN /\ LET first == CHOOSE i \in bad : \A j \in bad : i <= j
                   IN  ReturnError(translated[first].msg)
                /\ UNCHANGED examples
           ELSE /\ examples' = [i \in 1..Len(got.val) |-> translated[i].val]
                /\ pc' = "b_credential"
                /\ UNCHANGED output
    /\ UNCHANGED <<given, run, world, tmpfiles, environ, config, input_text, api_key,
                   result, stdout, exit_status, events, previous>>

\* api_key = config.get("api_key") or os.getenv("LANGEXTRACT_API_KEY")
\*           or os.getenv("GEMINI_API_KEY") or os.getenv("OPENAI_API_KEY")
ResolveKeyB(cfg, env) ==
    Or(Or(Or(Get(cfg, "api_key"), Getenv(env, "LANGEXTRACT_API_KEY")),
          Getenv(env, "GEMINI_API_KEY")),
       Getenv(env, "OPENAI_API_KEY"))

\* run_extraction, "Get API key from environment or config"
B_ResolveKey ==
    /\ runner = "B" /\ pc = "b_credential"
    /\ api_key' = ResolveKeyB(config, environ)
    /\ pc' = "b_extract"
    /\ UNCHANGED <<given, run, world, tmpfiles, environ, config, input_text, examples,
                   result, output, stdout, exit_status, events, previous>>

\* the first of config["text"], config["prompt_description"], config["model_id"]
\* that raises, if any
RECURSIVE FirstRaise(_, _)
FirstRaise(keys, cfg) ==
    IF keys = <<>> THEN Ok(<<>>)
    ELSE IF ~Subscript(cfg, Head(keys)).ok THEN Subscript(cfg, Head(keys))
    ELSE FirstRaise(Tail(keys), cfg)

\* run_extraction, "Run extraction"
B_CallLibrary ==
    /\ runner = "B" /\ pc = "b_extract"
    /\ LET args == FirstRaise(<<"text", "prompt_description", "model_id">>, config) IN
       IF ~args.ok
       THEN /\ ReturnError(args.msg)
            /\ UNCHANGED <<world, events, result>>
       ELSE \E r \in Behaviours :
               /\ world' = [world EXCEPT !.lib = Some(r)]
               /\ events' = Append(events,
                                   Event("extract",
                                         Call(config.fields.text[1],
                                              config.fields.prompt_description[1],
                                              config.fields.model_id[1], api_key, None)))
               /\ IF r.kind = "raises"
                  THEN ReturnError(<<"API error">>) /\ UNCHANGED result
                  ELSE /\ result' = r
                       /\ pc' = "b_normalize"
                       /\ UNCHANGED output
    /\ UNCHANGED <<given, run, tmpfiles, environ, config, input_text, api_key, examples,
                   stdout, exit_status, previous>>

\* Runner B's metadata for the extraction dicts
MetadataB(dicts) ==
    [total_extractions |-> Len(dicts),
     unique_classes |-> UniqueClasses(dicts),
     average_confidence |-> AverageB(dicts)]

\* run_extraction, "Process results" and "Calculate metadata"
B_Normalize ==
    /\ runner = "B" /\ pc = "b_normalize"
    /\ IF result.kind = "none"
       THEN ReturnError(<<"'NoneType' object is not iterable">>)
       ELSE IF result.kind = "not_iterable"
       THEN ReturnError(<<"'int' object is not iterable">>)
       ELSE LET dicts == IF result.kind = "list" THEN ToDicts(result.extractions) ELSE <<>>
            IN  /\ output' = [success |-> TRUE, extractions |-> dicts,
                              metadata |-> MetadataB(dicts)]
                /\ pc' = "b_print"
    /\ UNCHANGED <<given, run, world, tmpfiles, environ, config, input_text, api_key,
                   examples, result, stdout, exit_status, events, previous>>

\* print(json.dumps(result)), inside __main__'s try
B_Print ==
    /\ runner = "B" /\ pc = "b_print"
    /\ IF output.success /\ ~Serializable(output.extractions)
       THEN FailB(<<"Object of type object is not JSON serializable">>)
       ELSE /\ stdout' = Append(stdout, output)
            /\ exit_status' = 0
            /\ pc' = "done"
    /\ UNCHANGED <<given, run, world, tmpfiles, environ, config, input_text, api_key,
                   examples, result, output, events, previous>>

(* --------------------------- specifications ---------------------------- *)
\* the same runner is invoked again on the same configuration, in the same
\* environment and world; what the earlier invocation printed is kept
Rerun ==
    /\ pc = "done" /\ run < MaxRuns
    /\ run' = run + 1
    /\ previous' = Append(previous, [stdout |-> stdout, exit_status |-> exit_status])
    /\ pc' = IF runner = "A" THEN "load" ELSE "b_import"
    /\ environ' = environ0
    /\ config' = NoConfig
    /\ input_text' = <<>>
    /\ api_key' = None
    /\ examples' = <<>>
    /\ result' = NoResult
    /\ output' = NoOutput
    /\ stdout' = <<>>
    /\ exit_status' = 0
    /\ events' = <<>>
    /\ UNCHANGED <<given, world, tmpfiles>>

Init ==
    /\ run = 1
    /\ world = Unknown
    /\ tmpfiles = {}
    /\ previous = <<>>
    /\ (InitA \/ InitB)
    /\ Fresh

Next ==
    \/ A_LoadModule
    \/ A_ReadConfig
    \/ A_Validate
    \/ A_ResolveInput
    \/ A_Credential
    \/ A_ImportLibrary
    \/ A_PrepareExamples
    \/ A_CallLibrary
    \/ A_Normalize
    \/ A_SaveVisualization
    \/ A_Emit
    \/ B_ImportLibrary
    \/ B_ParseArgs
    \/ B_LoadConfig
    \/ B_PrepareExamples
    \/ B_ResolveKey
    \/ B_CallLibrary
    \/ B_Normalize
    \/ B_Print
    \/ Rerun

Spec == Init /\ [][Next]_vars

\* the result normalizers on every short list of extractions: both runners, on a
\* valid configuration with a credential, against each list the library can return
NormConfigA ==
    Json("object", [NoFieldsA EXCEPT !.inputText = Some(<<"a">>),
                                     !.promptDescription = Some("Extract names"),
                                     !.examples = Some(<<GoodExample>>),
                                     !.modelId = Some("gemini-2.5-flash"),
                                     !.apiKey = Some("key-config")])

NormConfigB ==
    Json("object", [NoFieldsB EXCEPT !.text = Some(<<"a">>),
                                     !.prompt_description = Some("Extract names"),
                                     !.examples = Some(<<GoodExample>>),
                                     !.model_id = Some("gemini-2.5-flash"),
                                     !.api_key = Some("key-config")])

InitNorm ==
    /\ run = 1
    /\ world \in {[Unknown EXCEPT !.lib = Some(r)] : r \in ListResults}
    /\ tmpfiles = {}
    /\ previous = <<>>
    /\ \/ runner = "A" /\ pc = "load" /\ argv = <<>> /\ source = NormConfigA
       \/ runner = "B" /\ pc = "b_import" /\ argv = <<"--config", "/in/config.json">>
          /\ source = NormConfigB
    /\ environ0 = [GEMINI_API_KEY |-> None, LANGEXTRACT_API_KEY |-> None,
                   OPENAI_API_KEY |-> None]
    /\ Fresh

SpecNorm == InitNorm /\ [][Next]_vars

(* ------------------------------ properties ----------------------------- *)
Done == pc = "done"

\* the optional document libraries found to be installed
KnownLibs == {m \in OptLibs : world.modules[m] = "yes"}

\* the operations of this invocation's events, in order
Ops == [i \in 1..Len(events) |-> events[i].op]
Did(op) == \E i \in 1..Len(events) : events[i].op = op

\* the required key Runner A's validation must name: the first absent one
MissingKey(doc) ==
    IF doc.fields.inputText = None THEN "inputText"
    ELSE IF doc.fields.promptDescription = None THEN "promptDescription"
    ELSE IF doc.fields.examples = None THEN "examples"
    ELSE IF doc.fields.modelId = None THEN "modelId"
    ELSE "none"

\* main has read the configuration from stdin
ReadA == runner = "A" /\ config = source

\* main has read a JSON object with all four required keys
ValidA == ReadA /\ source.kind = "object" /\ MissingKey(source) = "none"

\* Runner A's error envelope: success false, a message, a type label, a traceback
IsErrorA(o) ==
    /\ DOMAIN o = {"success", "error", "type", "traceback"}
    /\ o.success = FALSE
    /\ o.error # <<>>
    /\ o.type # ""
    /\ o.traceback # <<>>

\* what the text of Runner A's file resolves to, given the libraries installed
FileText == extract_text_from_file(source.fields.filePath[1],
                                   Disk(source.fields.filePath[1]), None, KnownLibs)

\* a step of this invocation of Runner A is known to have failed
StepFailedA ==
    \/ source.kind \in {"malformed", "number", "list"}
    \/ source.kind = "object" /\ MissingKey(source) # "none"
    \/ Did("read_file") /\ ~Did("fetch_url") /\ (~FileText.ok \/ Strip(FileText.val) = <<>>)
    \/ Did("fetch_url") /\ world.url[1].status # "ok"
    \/ Did("fetch_url") /\ Strip(input_text) = <<>>
    \/ ValidA /\ pc \notin {"validate", "resolve"} /\ ~Did("setenv")
       /\ ~Truthy(source.fields.apiKey) /\ ~Truthy(environ0.GEMINI_API_KEY)
       /\ ~(source.fields.promptDescription = Some("Extract text content")
            /\ Ops # <<>> /\ Ops[1] = "read_file")
    \/ Did("import") /\ world.modules["langextract"] = "no"
    \/ Did("import") /\ source.fields.examples = Some(<<BadExample>>)
    \/ Did("extract") /\ world.lib[1].kind \in {"raises", "not_iterable"}
    \/ Did("extract") /\ world.lib[1].kind = "list" /\ ~Serializable(world.lib[1].extractions)

\* C1: every run of Runner A prints exactly one JSON object, and nothing before it
\* ends; a run in which a step failed prints success = false with an error message,
\* a type label and a traceback and exits non-zero; a successful run exits 0.
C1_EveryRun ==
    runner = "A" =>
        /\ ~Done => stdout = <<>>
        /\ Done =>
            /\ Len(stdout) = 1
            /\ StepFailedA => ~stdout[1].success
            /\ ~stdout[1].success => IsErrorA(stdout[1]) /\ exit_status # 0
            /\ stdout[1].success => exit_status = 0 /\ ~StepFailedA

\* C2: every failing run of Runner B, a failed import of the library included,
\* prints one object {success: false, error} and exits with status 0.
C2_FailuresExitZero ==
    (runner = "B" /\ Done /\ ~(Len(stdout) = 1 /\ "success" \in DOMAIN stdout[1]
                                /\ stdout[1].success))
        => /\ Len(stdout) = 1
           /\ DOMAIN stdout[1] = {"success", "error"}
           /\ stdout[1].success = FALSE
           /\ exit_status = 0

\* C3: Runner A, for a configuration object it has read that lacks a required key,
\* prints success = false with an error naming the first missing key, and reads no
\* file, fetches no URL, writes no environment variable and never imports or calls
\* the library.
C3_MissingField ==
    (ReadA /\ source.kind = "object" /\ MissingKey(source) # "none")
        => /\ events = <<>>
           /\ environ = environ0
           /\ tmpfiles = {}
           /\ Done => /\ Len(stdout) = 1
                      /\ stdout[1].success = FALSE
                      /\ stdout[1].error = <<"Missing required field: ", MissingKey(source)>>

\* a run given an object with inputText but neither examples nor modelId has ended
C3_Witness ==
    /\ ReadA /\ Done
    /\ source.kind = "object"
    /\ source.fields.inputText # None /\ source.fields.promptDescription # None
    /\ source.fields.examples = None /\ source.fields.modelId = None
    /\ Len(stdout) = 1 /\ stdout[1].success = FALSE

\* the configuration names the sentinel prompt and an existing file whose
\* extracted text is not blank
SentinelOnFile ==
    /\ ReadA /\ source.kind = "object"
    /\ source.fields.promptDescription = Some("Extract text content")
    /\ source.fields.filePath # None
    /\ source.fields.filePath[1] \in ExistingPaths
    /\ FileText.ok /\ Strip(FileText.val) # <<>>

\* the sentinel's envelope, with no library import or call, no credential and no
\* temporary file
TextReturned ==
    /\ Len(stdout) = 1
    /\ DOMAIN stdout[1] = {"success", "extractedText", "metadata"}
    /\ stdout[1].success = TRUE
    /\ stdout[1].extractedText = FileText.val
    /\ DOMAIN stdout[1].metadata = {"inputLength", "processingTime"}
    /\ stdout[1].metadata.inputLength = Chars(FileText.val)
    /\ exit_status = 0
    /\ Ops = <<"read_file">>
    /\ api_key = None
    /\ environ = environ0
    /\ tmpfiles = {}

\* C4 as claimed: for any configuration with the sentinel prompt and such a file,
\* the output is the extracted text and the library is never imported or called.
C4_AnyConfiguration == (SentinelOnFile /\ Done) => TextReturned

\* C4 as amended: the same, for configurations that hold all four required keys;
\* during the run too there is no import, call, credential or temporary file.
C4_Sentinel ==
    (SentinelOnFile /\ ValidA) =>
        /\ ~Did("import") /\ ~Did("extract") /\ ~Did("setenv") /\ ~Did("mkstemp")
        /\ api_key = None /\ environ = environ0 /\ tmpfiles = {}
        /\ Done => TextReturned

\* the sentinel run on the PDF file has returned its page text
C4_Witness ==
    /\ SentinelOnFile /\ ValidA /\ Done
    /\ source.fields.filePath = Some(PathPdf)
    /\ stdout[1].extractedText = <<"a", "\n", "b">>

\* the confidences of the extractions the library returned, None where missing
Returned == world.lib[1].extractions
ReturnedConfidences == [i \in 1..Len(Returned) |-> Returned[i].confidence]
IsPresent(c) == c # None
Value(c) == c[1]

\* the mean of the confidences that are present, 0 when there is none
MeanOfPresent ==
    LET present == SelectSeq(ReturnedConfidences, IsPresent)
        values == [i \in 1..Len(present) |-> Value(present[i])]
    IN  IF present = <<>> THEN Zero ELSE Quotient(Sum(values), Len(values))

\* the mean over all extractions with 1.0 (100 hundredths) in place of a missing one
MeanWithDefault ==
    LET values == [i \in 1..Len(Returned) |->
                      IF IsPresent(ReturnedConfidences[i])
                      THEN Value(ReturnedConfidences[i]) ELSE 100]
    IN  Quotient(Sum(values), Len(values))

\* Runner B printed a success envelope for a non-empty list of extractions
NormalizedB ==
    /\ runner = "B" /\ Done
    /\ Len(stdout) = 1 /\ "success" \in DOMAIN stdout[1] /\ stdout[1].success
    /\ world.lib[1].kind = "list" /\ Returned # <<>>

\* C5: Runner B's average_confidence is the mean over all returned extractions
\* with 1.0 substituted for each missing confidence.
C5_DefaultSubstituted ==
    NormalizedB => SameNumber(stdout[1].metadata.average_confidence, MeanWithDefault)

\* C6: Runner A's metadata has totalExtractions = the number of returned
\* extractions, uniqueClasses = the number of distinct classes among them and
\* averageConfidence = the mean of the present confidences, 0 when there is none.
C6_MetadataA ==
    (runner = "A" /\ Done /\ Len(stdout) = 1 /\ stdout[1].success
     /\ Did("extract") /\ world.lib[1].kind = "list")
        => /\ stdout[1].metadata.totalExtractions = Len(Returned)
           /\ stdout[1].metadata.uniqueClasses =
                  Cardinality({c \in Classes : \E i \in 1..Len(Returned) :
                                                   Returned[i].extraction_class = c})
           /\ SameNumber(stdout[1].metadata.averageConfidence, MeanOfPresent)
           /\ (\A i \in 1..Len(Returned) : Returned[i].confidence = None)
                  => stdout[1].metadata.averageConfidence = Zero

\* Runner A has reported 3 extractions of 2 classes with mean confidence 0.6 for
\* classes A, A, B with confidences 0.5, 0.7, None
C6_Witness ==
    /\ runner = "A" /\ Done /\ Len(stdout) = 1 /\ stdout[1].success
    /\ Did("extract")
    /\ ReturnedConfidences = <<Some(50), Some(70), None>>
    /\ [i \in 1..3 |-> Returned[i].extraction_class] = <<"A", "A", "B">>
    /\ stdout[1].metadata.totalExtractions = 3
    /\ stdout[1].metadata.uniqueClasses = 2
    /\ SameNumber(stdout[1].metadata.averageConfidence, Quotient(60, 1))

\* an envelope with its elapsed-time field blanked
WithoutTime(o) ==
    IF "metadata" \in DOMAIN o /\ "processingTime" \in DOMAIN o.metadata
    THEN [o EXCEPT !.metadata.processingTime = 0] ELSE o

\* a text with every object address it quotes blanked
WithoutAddress(text) ==
    [i \in 1..Len(text) |-> IF text[i] \in Addresses THEN "0x" ELSE text[i]]

\* an envelope with its elapsed-time field and the object addresses in its error
\* texts blanked
WithoutTimeAndAddress(o) ==
    LET t == WithoutTime(o)
        e == IF "error" \in DOMAIN t
             THEN [t EXCEPT !.error = WithoutAddress(t.error)] ELSE t
    IN  IF "traceback" \in DOMAIN e
        THEN [e EXCEPT !.traceback = WithoutAddress(e.traceback)] ELSE e

\* an envelope with its elapsed-time field, its visualization file name and the
\* object addresses in its error texts blanked
WithoutTimeFileAndAddress(o) ==
    LET t == WithoutTimeAndAddress(o) IN
    IF "visualization_file" \in DOMAIN t
    THEN [t EXCEPT !.visualization_file =
             IF t.visualization_file = None THEN None ELSE Some(<<"tmp">>)]
    ELSE t

Masked(out, Mask(_)) == [i \in 1..Len(out) |-> Mask(out[i])]

\* C7 as claimed: two invocations on the same configuration, environment and
\* library response print envelopes equal in every field but processingTime
\* (granting the claim the object address a connection error quotes).
C7_SameButTime ==
    (Done /\ previous # <<>>) =>
        \A i \in 1..Len(previous) :
            Masked(previous[i].stdout, WithoutTimeAndAddress)
                = Masked(stdout, WithoutTimeAndAddress)

\* C7 as amended: two invocations on the same configuration, environment, files,
\* URL response and library response print envelopes equal in every field but
\* processingTime, the name in visualization_file (present in both or in neither)
\* and the object address quoted in the error texts of a failed connection; the
\* exit status is the same.
C7_SameButTimeFileAndAddress ==
    (Done /\ previous # <<>>) =>
        \A i \in 1..Len(previous) :
            /\ Masked(previous[i].stdout, WithoutTimeFileAndAddress)
                   = Masked(stdout, WithoutTimeFileAndAddress)
            /\ previous[i].exit_status = exit_status

\* two invocations of Runner A that returned extractions have ended, with
\* different elapsed times and different visualization files
C7_Witness ==
    /\ runner = "A" /\ Done /\ Len(previous) = 1
    /\ Len(stdout) = 1 /\ stdout[1].success /\ Did("mkstemp")
    /\ previous[1].stdout[1].metadata.processingTime # stdout[1].metadata.processingTime
    /\ previous[1].stdout[1].visualization_file # stdout[1].visualization_file

\* Runner A has read the text of an existing file with an HTML suffix
ResolvedHtmlFile ==
    /\ ValidA /\ pc \notin {"validate", "resolve"}
    /\ Ops # <<>> /\ Ops[1] = "read_file"
    /\ LowerChar(Suffix(source.fields.filePath[1])) \in {".html", ".htm"}

\* C8: for an existing .html or .htm file extract_text_from_file returns the
\* visible text of the parsed HTML, not the raw contents.
C8_HtmlVisibleText ==
    ResolvedHtmlFile => input_text = GetText(Disk(source.fields.filePath[1]).raw)

\* the key Runner A must resolve: the configured one, else GEMINI_API_KEY
ExpectedKeyA ==
    IF source.fields.apiKey # None /\ source.fields.apiKey[1] # ""
    THEN source.fields.apiKey ELSE environ0.GEMINI_API_KEY

\* the key Runner B must resolve: the configured one, else the first variable set
\* of LANGEXTRACT_API_KEY, GEMINI_API_KEY, OPENAI_API_KEY
ExpectedKeyB ==
    IF source.fields.api_key # None /\ source.fields.api_key[1] # ""
        THEN source.fields.api_key
    ELSE IF environ0.LANGEXTRACT_API_KEY # None THEN environ0.LANGEXTRACT_API_KEY
    ELSE IF environ0.GEMINI_API_KEY # None THEN environ0.GEMINI_API_KEY
    ELSE environ0.OPENAI_API_KEY

\* the key was written to GEMINI_API_KEY before event i, the library call, which
\* sees it in its environment
WrittenBefore(i, key) ==
    /\ \E j \in 1..(i - 1) : events[j] = Event("setenv", <<"GEMINI_API_KEY", key>>)
    /\ events[i].arg.environ.GEMINI_API_KEY = Some(key)

\* the key was written to some environment variable before event i, the library
\* call, or the call at least finds it in some variable of its environment
InEnvironment(i, key) ==
    \/ \E j \in 1..(i - 1) : events[j].op = "setenv" /\ events[j].arg[2] = key
    \/ \E n \in DOMAIN events[i].arg.environ : events[i].arg.environ[n] = Some(key)

\* C9 as claimed: in both runners a library call is preceded by the write of the
\* resolved key into the process environment, and Runner A never calls without one.
C9_KeyInEnvironment ==
    \A i \in 1..Len(events) :
        events[i].op = "extract" =>
            IF runner = "A"
            THEN ExpectedKeyA # None /\ InEnvironment(i, ExpectedKeyA[1])
            ELSE ExpectedKeyB # None => InEnvironment(i, ExpectedKeyB[1])

\* C9 as amended: Runner A writes the resolved key to GEMINI_API_KEY before the
\* call and never calls without a key; Runner B never writes the environment
\* and passes the resolved key, or None, as the api_key argument of the call.
C9_KeyBeforeCall ==
    \A i \in 1..Len(events) :
        events[i].op = "extract" =>
            IF runner = "A"
            THEN ExpectedKeyA # None /\ ExpectedKeyA[1] # ""
                 /\ WrittenBefore(i, ExpectedKeyA[1])
            ELSE /\ events[i].arg.api_key = ExpectedKeyB
                 /\ events[i].arg.environ = environ0
                 /\ ~Did("setenv")

\* Runner A has called the library with the configured key, which overrides the
\* GEMINI_API_KEY it was started with
C9_Witness ==
    /\ runner = "A" /\ Did("extract")
    /\ environ0.GEMINI_API_KEY = Some("key-gemini")
    /\ environ.GEMINI_API_KEY = Some("key-config")

\* where Runner A's input text must come from
FileSupplied ==
    /\ source.fields.filePath # None
    /\ source.fields.filePath[1] \in ExistingPaths
IsUrl(text) == text[1] \in {"http://", "https://"}
UrlText == download_and_extract_from_url(source.fields.inputText[1], world.url[1], KnownLibs,
                                         PathTmpPdf, "0x7f01")

\* the text the library must be given, if the resolution succeeds
Expected ==
    IF FileSupplied THEN FileText
    ELSE IF IsUrl(source.fields.inputText[1])
        THEN (IF world.url = None THEN Raise("unknown", <<>>) ELSE UrlText)
    ELSE Ok(source.fields.inputText[1])

\* the precedence of C10: file, else URL, else the literal text; a blank file or
\* URL text stops the run before the library is called
Precedence ==
    \A i \in 1..Len(events) :
        events[i].op = "extract" =>
            /\ Expected.ok
            /\ events[i].arg.text_or_documents = Expected.val
            /\ (FileSupplied \/ IsUrl(source.fields.inputText[1]))
                   => Strip(Expected.val) # <<>>
            /\ FileSupplied => ~Did("fetch_url")
            /\ ~FileSupplied /\ IsUrl(source.fields.inputText[1]) => Did("fetch_url")
            /\ ~FileSupplied /\ ~IsUrl(source.fields.inputText[1])
                   => ~Did("fetch_url") /\ ~Did("read_file")

\* C10 as claimed: the precedence, and at most one of the file handler and the
\* URL fetch runs in an invocation.
C10_AtMostOneHandler ==
    ValidA => Precedence /\ ~(Did("read_file") /\ Did("fetch_url"))

\* C10 as amended: the precedence; the file handler never runs on filePath in an
\* invocation that fetches the URL, where it runs only on the temporary file
\* holding a fetched PDF.
C10_Precedence ==
    ValidA =>
        /\ Precedence
        /\ Did("fetch_url") =>
              \A i \in 1..Len(events) :
                  events[i].op = "read_file" =>
                      /\ i > 1 /\ events[i - 1] = Event("mkstemp", events[i].arg)
                      /\ Contains(ContentType(world.url[1]), <<"application", "/", "pdf">>)
        /\ Len(SelectSeq(Ops, LAMBDA op : op = "fetch_url")) <= 1
        /\ Len(SelectSeq(Ops, LAMBDA op : op = "read_file")) <= 1

\* the library was called with the text of the configured file although the
\* inputText is a URL
C10_Witness ==
    /\ ValidA /\ Did("extract")
    /\ source.fields.filePath = Some(PathHtml)
    /\ source.fields.inputText = Some(UrlHttps)
    /\ Ops[1] = "read_file"

====
